---- MODULE Spec2Model ----
(***************************************************************************)
(* Laplace coefficients b_s^j(alpha) and their derivatives.                *)
(*                                                                         *)
(* lc / dnlc model src/laplace/coefficients.py, laplace_lc / laplace_dnlc  *)
(* model src/laplace/laplace.py.  Both are pure functions, so each is an   *)
(* operator that returns the outcome of the call together with the trace   *)
(* of the calls it made, in program order.                                 *)
(*                                                                         *)
(* Numbers.  alpha and s are exact rationals <<num, den>>.  A double is    *)
(* one of: a real number, written as a linear form over the finite values  *)
(* of lc's return expressions (a set of <<leaf, coefficient>> pairs, the   *)
(* empty set being 0.0), +inf, -inf or nan.  Rounding is not modelled.     *)
(* The int64 product of np.arange(1, j + 1) is computed on                 *)
(* eight 8-bit limbs, i.e. modulo 2^64.  hyp2f1 and quad are library       *)
(* calls: only the sign class of what they return is modelled (finite,     *)
(* +inf where the series diverges, any outcome where the integral does).   *)
(***************************************************************************)
EXTENDS Integers, Sequences, FiniteSets, TLC

\* ------------------------------------------------------------------ bounds
MaxJ == 3
MaxN == 2
MaxFactJ == 67

\* --------------------------------------------------------------- rationals
RECURSIVE GCD(_, _)
GCD(a, b) == IF b = 0 THEN a ELSE GCD(b, a % b)

Abs(x) == IF x < 0 THEN -x ELSE x

R(n, d) ==
    LET g == GCD(Abs(n), Abs(d))
        sg == IF d < 0 THEN -1 ELSE 1
    IN  <<sg * (n \div g), sg * (d \div g)>>

Zero == <<0, 1>>
One == <<1, 1>>
RInt(i) == <<i, 1>>
RAdd(x, y) == R(x[1] * y[2] + y[1] * x[2], x[2] * y[2])
RSub(x, y) == R(x[1] * y[2] - y[1] * x[2], x[2] * y[2])
RMul(x, y) == R(x[1] * y[1], x[2] * y[2])
RNeg(x) == <<-x[1], x[2]>>
RLt(x, y) == x[1] * y[2] < y[1] * x[2]
RGt(x, y) == RLt(y, x)
RSign(x) == IF x[1] < 0 THEN "neg" ELSE IF x[1] = 0 THEN "zero" ELSE "pos"

\* ----------------------------------------------------- 64-bit integers
\* An int64 is eight little-endian limbs of eight bits (two's complement).
LimbBase == 256
Int64Limbs == 8

\* x * k + c on little-endian limbs; the carry out of the last limb is kept
\* as further limbs when grow is TRUE (arbitrary precision) and dropped when
\* it is FALSE (wrap-around at the width of x).
RECURSIVE MulLimbs(_, _, _, _)
MulLimbs(x, k, c, grow) ==
    IF x = <<>>
    THEN IF grow /\ c > 0 THEN <<c % LimbBase>> \o MulLimbs(<<>>, k, c \div LimbBase, grow)
         ELSE <<>>
    ELSE LET t == Head(x) * k + c
         IN  <<t % LimbBase>> \o MulLimbs(Tail(x), k, t \div LimbBase, grow)

Int64One == <<1, 0, 0, 0, 0, 0, 0, 0>>
Int64Zero == <<0, 0, 0, 0, 0, 0, 0, 0>>
Int64Sign(x) ==
    IF x = Int64Zero THEN "zero"
    ELSE IF x[Int64Limbs] >= LimbBase \div 2 THEN "neg" ELSE "pos"

\* the mathematical integers, as limbs without leading zeros
BigOne == <<1>>
RECURSIVE Trim(_)
Trim(x) == IF x # <<>> /\ x[Len(x)] = 0 THEN Trim(SubSeq(x, 1, Len(x) - 1)) ELSE x

\* the value of the int64 x is the mathematical integer big
Int64Equals(x, big) == Int64Sign(x) # "neg" /\ Trim(x) = Trim(big)

\* The product of xs[1 .. i] starting from one.  Multiplication modulo 2^64
\* (and of integers) is associative, so the factors are taken three at a
\* time, which keeps the evaluation shallow; the result is that of the
\* left-to-right product.
RECURSIVE ProdLimbs(_, _, _, _)
ProdLimbs(xs, i, one, grow) ==
    IF i = 0 THEN one
    ELSE IF i >= 3
         THEN MulLimbs(ProdLimbs(xs, i - 3, one, grow), xs[i - 2] * xs[i - 1] * xs[i], 0, grow)
         ELSE MulLimbs(ProdLimbs(xs, i - 1, one, grow), xs[i], 0, grow)

\* ------------------------------------------------------------------ doubles
\* A double of known sign: "neg", "zero", "pos", "pinf", "ninf" or "nan".
ClsIsInf(x) == x \in {"pinf", "ninf"}
ClsNegative(x) == x \in {"neg", "ninf"}

\* IEEE product
ClsMul(x, y) ==
    IF x = "nan" \/ y = "nan" THEN "nan"
    ELSE IF x = "zero" \/ y = "zero"
         THEN IF ClsIsInf(x) \/ ClsIsInf(y) THEN "nan" ELSE "zero"
    ELSE LET neg == ClsNegative(x) # ClsNegative(y)
         IN  IF ClsIsInf(x) \/ ClsIsInf(y)
             THEN IF neg THEN "ninf" ELSE "pinf"
             ELSE IF neg THEN "neg" ELSE "pos"

\* numpy true division of a finite double by an int64
ClsDiv(q, p) ==
    IF p = "zero"
    THEN IF q = "zero" THEN "nan" ELSE IF q = "neg" THEN "ninf" ELSE "pinf"
    ELSE ClsMul(q, p)

\* outcomes of a call: a double, or a raised ValueError
Num(form) == [k |-> "num", form |-> form, err |-> "none"]
NonFinite(k) == [k |-> k, form |-> {}, err |-> "none"]
Raise(e) == [k |-> "err", form |-> {}, err |-> e]
IsErr(v) == v.k = "err"
IsNonFinite(v) == v.k \in {"pinf", "ninf", "nan"}

\* linear forms: sets of <<leaf, coefficient>>, coefficients non-zero
Leaves(f) == {t[1] : t \in f}
Coef(f, l) == IF \E t \in f : t[1] = l THEN (CHOOSE t \in f : t[1] = l)[2] ELSE Zero
FormAdd(f, g) ==
    {t \in {<<l, RAdd(Coef(f, l), Coef(g, l))>> : l \in Leaves(f) \cup Leaves(g)} : t[2] # Zero}
FormScale(c, f) == IF c = Zero THEN {} ELSE {<<t[1], RMul(c, t[2])>> : t \in f}

\* c * v for an exact scalar c
FScale(c, v) ==
    CASE v.k = "num" -> Num(FormScale(c, v.form))
      [] v.k = "nan" -> v
      [] OTHER -> IF c = Zero THEN NonFinite("nan")
                  ELSE IF RLt(c, Zero)
                       THEN NonFinite(IF v.k = "pinf" THEN "ninf" ELSE "pinf")
                       ELSE v

FAdd(v, w) ==
    CASE v.k = "nan" \/ w.k = "nan" -> NonFinite("nan")
      [] v.k = "num" /\ w.k = "num" -> Num(FormAdd(v.form, w.form))
      [] v.k = "num" -> w
      [] w.k = "num" -> v
      [] OTHER -> IF v.k = w.k THEN v ELSE NonFinite("nan")

FSub(v, w) == FAdd(v, FScale(RInt(-1), w))

\* the double whose sign class is cls and whose value, when finite and
\* non-zero, is the one named leaf
FromCls(cls, leaf) ==
    CASE cls \in {"neg", "pos", "num"} -> Num({<<leaf, One>>})
      [] cls = "zero" -> Num({})
      [] OTHER -> NonFinite(cls)

\* ------------------------------------------------------------- call traces
Event(op, args) == [op |-> op, args |-> args]
Result(out, trace) == [out |-> out, trace |-> trace]

\* ---------------------------------------------------------------- inputs
BigJ == 66
Alphas == {R(a, 2) : a \in -1 .. 3}
Ss == {R(x, 2) : x \in -1 .. 3}
Js == (-MaxJ .. MaxJ) \cup {BigJ, -BigJ}
Ns == -MaxN .. MaxN
Methods == {"hyper", "brute", "bogus"}
\* what quad hands back for an integral that does not converge
QuadDivOutcomes == {"num", "pinf", "nan"}

VARIABLES pc, alpha, s, j, n, method, quadDiv, res
vars == <<pc, alpha, s, j, n, method, quadDiv, res>>

\* ------------------------------------------------- numpy / scipy primitives
Max(a, b) == IF a > b THEN a ELSE b

\* np.arange(lo, hi) on Python ints
ArangeInt(lo, hi) == [i \in 1 .. Max(0, hi - lo) |-> lo + i - 1]
\* np.arange(start, start + count) on doubles
ArangeFloat(start, count) == [i \in 1 .. Max(0, count) |-> RAdd(start, RInt(i - 1))]

\* np.prod of an int64 array
ProdInt64(xs) == ProdLimbs(xs, Len(xs), Int64One, FALSE)

\* sign class of np.prod of a double array
ProdCls(xs) ==
    IF \E i \in DOMAIN xs : xs[i] = Zero THEN "zero"
    ELSE IF Cardinality({i \in DOMAIN xs : RLt(xs[i], Zero)}) % 2 = 1 THEN "neg"
    ELSE "pos"

\* sign class of np.power(a, k), a double, k a Python int
PowCls(a, k) ==
    IF k = 0 THEN "pos"
    ELSE IF a = Zero THEN (IF k > 0 THEN "zero" ELSE "pinf")
    ELSE IF RLt(a, Zero) /\ k % 2 = 1 THEN "neg" ELSE "pos"

\* sign class of hyp2f1(a, b, c, z) for a, b, c >= 0: 1 when a = 0, a series
\* of positive terms for 0 <= z < 1, and at z = 1 divergent when c - a - b <= 0
Hyp2f1Cls(a, b, c, z) ==
    IF a = Zero \/ b = Zero \/ z = Zero THEN "pos"
    ELSE IF RLt(z, One) THEN "pos"
    ELSE IF z = One /\ RGt(RSub(c, RAdd(a, b)), Zero) THEN "pos"
    ELSE "pinf"

\* np.cos(j * t) as a function of t: cos is even
CosArg(k) == Abs(k)

\* the integral of cos(j t) (1 - 2 a cos t + a^2)^(-s) over [0, 2 pi] does not
\* converge when the base vanishes somewhere (|a| = 1) and s >= 1/2
QuadDiverges(a, e) == RMul(a, a) = One /\ ~ RLt(e, R(1, 2))

\* ---------------------------------------------- src/laplace/coefficients.py
MsgMethod == "method must be 'hyper' or 'brute'"
MsgAlpha == "semi-major axis ratio alpha must be between 0 and 1"
MsgS == "s must be a positive half-integer"

\* variant: the bound alpha = 1 itself is rejected
validate_inputs_open(a, e, m) ==
    IF m \notin {"hyper", "brute"} THEN MsgMethod
    ELSE IF ~ RLt(a, One) THEN MsgAlpha
    ELSE IF RLt(e, Zero) THEN MsgS
    ELSE "none"

validate_inputs(a, e, m) ==
    IF m \notin {"hyper", "brute"} THEN MsgMethod
    ELSE IF RGt(a, One) THEN MsgAlpha
    ELSE IF RLt(e, Zero) THEN MsgS
    ELSE "none"

\* variant: j is used as given
AbsJ_signed(k) == k
AbsJ(k) == Abs(k)
lc_p(k) == ProdInt64(ArangeInt(1, k + 1))
lc_q(e, k) == ArangeFloat(e, k)

\* the closed-form branch: the value and the library call made
lc_hyper(a, e, k0) ==
    LET k == AbsJ(k0)
        p == lc_p(k)
        q == lc_q(e, k)
        hargs == <<e, RAdd(e, RInt(k)), RInt(k + 1), RMul(a, a)>>
        leaf == [fn |-> "hyp2f1", q |-> q, p |-> p, base |-> a, exp |-> k, args |-> hargs]
        cls == ClsMul(ClsMul(ClsMul("pos", ClsDiv(ProdCls(q), Int64Sign(p))), PowCls(a, k)),
                      Hyp2f1Cls(hargs[1], hargs[2], hargs[3], hargs[4]))
    IN  Result(FromCls(cls, leaf), <<Event("prod", <<k, p, q, e>>), Event("hyp2f1", hargs)>>)

\* the quadrature branch
lc_brute(a, e, k) ==
    LET qargs == <<RNeg(e)>>
        leaf == [fn |-> "quad", q |-> <<>>, p |-> <<>>, base |-> a, exp |-> CosArg(k), args |-> qargs]
        cls == IF QuadDiverges(a, e) THEN quadDiv ELSE "num"
    IN  Result(FromCls(cls, leaf), <<Event("quad", <<a, e, CosArg(k)>>)>>)

lc(a, e, k, m) ==
    LET enter == <<Event("lc", <<a, e, k, m>>)>>
        v == validate_inputs(a, e, m)
    IN  IF v # "none" THEN Result(Raise(v), enter)
        ELSE LET r == IF m = "hyper" THEN lc_hyper(a, e, k) ELSE lc_brute(a, e, k)
             IN  Result(r.out, enter \o r.trace)

\* max(0, n + 1) * lc(...)
dnlc_base(ord, r) ==
    Result(IF IsErr(r.out) THEN r.out ELSE FScale(RInt(Max(0, ord + 1)), r.out), r.trace)

\* variant: the last term weighted by 2 * n
dnlc_combine_2n(a, e, ord, d1, d2, d3, d4) ==
    FScale(e, FSub(FAdd(FSub(d1, FScale(RMul(RInt(2), a), d2)), d3),
                   FScale(RInt(2 * ord), d4)))

\* s * (d1 - 2 * alpha * d2 + d3 - 2 * (n - 1) * d4)
dnlc_combine(a, e, ord, d1, d2, d3, d4) ==
    FScale(e, FSub(FAdd(FSub(d1, FScale(RMul(RInt(2), a), d2)), d3),
                   FScale(RInt(2 * (ord - 1)), d4)))

\* variant: s is shifted down
dnlc_subcalls_down(a, e, k, ord, m) ==
    << <<a, RSub(e, One), k - 1, ord - 1, m>>,
       <<a, RSub(e, One), k, ord - 1, m>>,
       <<a, RSub(e, One), k + 1, ord - 1, m>>,
       <<a, RSub(e, One), k, ord - 2, m>> >>

\* variant: the upper neighbour is j + 2
dnlc_subcalls_skew(a, e, k, ord, m) ==
    << <<a, RAdd(e, One), k - 1, ord - 1, m>>,
       <<a, RAdd(e, One), k, ord - 1, m>>,
       <<a, RAdd(e, One), k + 2, ord - 1, m>>,
       <<a, RAdd(e, One), k, ord - 2, m>> >>

\* the arguments of the four recursive calls, in evaluation order
dnlc_subcalls(a, e, k, ord, m) ==
    << <<a, RAdd(e, One), k - 1, ord - 1, m>>,
       <<a, RAdd(e, One), k, ord - 1, m>>,
       <<a, RAdd(e, One), k + 1, ord - 1, m>>,
       <<a, RAdd(e, One), k, ord - 2, m>> >>

RECURSIVE dnlc(_, _, _, _, _)
dnlc(a, e, k, ord, m) ==
    LET enter == <<Event("dnlc", <<a, e, k, ord, m>>)>>
        v == validate_inputs(a, e, m)
    IN  IF v # "none" THEN Result(Raise(v), enter)
        ELSE IF ord <= 0
        THEN LET r == dnlc_base(ord, lc(a, e, k, m))
             IN  Result(r.out, enter \o r.trace)
        ELSE LET c == dnlc_subcalls(a, e, k, ord, m)
                 r1 == dnlc(c[1][1], c[1][2], c[1][3], c[1][4], c[1][5])
                 r2 == dnlc(c[2][1], c[2][2], c[2][3], c[2][4], c[2][5])
                 r3 == dnlc(c[3][1], c[3][2], c[3][3], c[3][4], c[3][5])
                 r4 == dnlc(c[4][1], c[4][2], c[4][3], c[4][4], c[4][5])
             IN  IF IsErr(r1.out) THEN Result(r1.out, enter \o r1.trace)
                 ELSE IF IsErr(r2.out) THEN Result(r2.out, enter \o r1.trace \o r2.trace)
                 ELSE IF IsErr(r3.out)
                      THEN Result(r3.out, enter \o r1.trace \o r2.trace \o r3.trace)
                 ELSE IF IsErr(r4.out)
                      THEN Result(r4.out, enter \o r1.trace \o r2.trace \o r3.trace \o r4.trace)
                 ELSE Result(dnlc_combine(a, e, ord, r1.out, r2.out, r3.out, r4.out),
                             enter \o r1.trace \o r2.trace \o r3.trace \o r4.trace)

\* --------------------------------------------------- src/laplace/laplace.py
LaplaceMsgMethod == "method must be 'hyper' or 'brute'."
LaplaceMsgAlpha == "semi-major axis ratio a must be between 0 and 1."
LaplaceMsgS == "s must be a positive half-integer."

laplace_lc(a, e, k, m) ==
    LET enter == <<Event("lc", <<a, e, k, m>>)>>
    IN  IF m \notin {"hyper", "brute"} THEN Result(Raise(LaplaceMsgMethod), enter)
        ELSE IF RGt(a, One) THEN Result(Raise(LaplaceMsgAlpha), enter)
        ELSE IF RLt(e, Zero) THEN Result(Raise(LaplaceMsgS), enter)
        ELSE LET r == IF m = "hyper" THEN lc_hyper(a, e, k) ELSE lc_brute(a, e, k)
             IN  Result(r.out, enter \o r.trace)

RECURSIVE laplace_dnlc(_, _, _, _, _)
laplace_dnlc(a, e, k, ord, m) ==
    LET enter == <<Event("dnlc", <<a, e, k, ord, m>>)>>
    IN  IF ord <= 0
        THEN LET r == dnlc_base(ord, laplace_lc(a, e, k, m))
             IN  Result(r.out, enter \o r.trace)
        ELSE LET c == dnlc_subcalls(a, e, k, ord, m)
                 r1 == laplace_dnlc(c[1][1], c[1][2], c[1][3], c[1][4], c[1][5])
                 r2 == laplace_dnlc(c[2][1], c[2][2], c[2][3], c[2][4], c[2][5])
                 r3 == laplace_dnlc(c[3][1], c[3][2], c[3][3], c[3][4], c[3][5])
                 r4 == laplace_dnlc(c[4][1], c[4][2], c[4][3], c[4][4], c[4][5])
             IN  IF IsErr(r1.out) THEN Result(r1.out, enter \o r1.trace)
                 ELSE IF IsErr(r2.out) THEN Result(r2.out, enter \o r1.trace \o r2.trace)
                 ELSE IF IsErr(r3.out)
                      THEN Result(r3.out, enter \o r1.trace \o r2.trace \o r3.trace)
                 ELSE IF IsErr(r4.out)
                      THEN Result(r4.out, enter \o r1.trace \o r2.trace \o r3.trace \o r4.trace)
                 ELSE Result(dnlc_combine(a, e, ord, r1.out, r2.out, r3.out, r4.out),
                             enter \o r1.trace \o r2.trace \o r3.trace \o r4.trace)

\* ------------------------------------------------------------ state machine
NoResult == Result(Num({}), <<>>)

Init ==
    /\ pc = "ready"
    /\ alpha \in Alphas
    /\ s \in Ss
    /\ j \in Js
    /\ n \in Ns
    /\ method \in Methods
    /\ quadDiv \in QuadDivOutcomes
    /\ res = NoResult

Call(fn, r) ==
    /\ pc = "ready"
    /\ pc' = fn
    /\ res' = r
    /\ UNCHANGED <<alpha, s, j, n, method, quadDiv>>

CallLc == Call("lc", lc(alpha, s, j, method))
CallDnlc == Call("dnlc", dnlc(alpha, s, j, n, method))
CallLaplaceLc == Call("laplace_lc", laplace_lc(alpha, s, j, method))
CallLaplaceDnlc == Call("laplace_dnlc", laplace_dnlc(alpha, s, j, n, method))

Next == CallLc \/ CallDnlc \/ CallLaplaceLc \/ CallLaplaceDnlc

Spec == Init /\ [][Next]_vars

\* the closed-form prefactor over a range of harmonics that reaches the
\* wrap-around of the int64 product
FactAlphas == {R(1, 2)}
FactSs == {R(x, 2) : x \in 0 .. 3}
FactJs == -MaxFactJ .. MaxFactJ
FactNs == {0, 1}

FactInit ==
    /\ pc = "ready"
    /\ alpha \in FactAlphas
    /\ s \in FactSs
    /\ j \in FactJs
    /\ n \in FactNs
    /\ method = "hyper"
    /\ quadDiv = "num"
    /\ res = NoResult

FactSpec == FactInit /\ [][Next]_vars

\* ------------------------------------------------------ claim vocabulary
Recognized == {"hyper", "brute"}
Valid == method \in Recognized /\ ~ RGt(alpha, One) /\ ~ RLt(s, Zero)
InvalidMethod == {MsgMethod, LaplaceMsgMethod}
InvalidDomain == {MsgAlpha, MsgS, LaplaceMsgAlpha, LaplaceMsgS}
\* the error the taxonomy assigns to the arguments (the method is looked at first)
RaisesExpected(out) ==
    /\ IsErr(out)
    /\ method \notin Recognized => out.err \in InvalidMethod
    /\ method \in Recognized => out.err \in InvalidDomain
NumericWork == {"prod", "hyp2f1", "quad"}
NoNumericWork(trace) == \A i \in DOMAIN trace : trace[i].op \notin NumericWork
CalledLc == pc \in {"lc", "laplace_lc"}
CalledDnlc == pc \in {"dnlc", "laplace_dnlc"}
\* the function that was called, at other arguments
SameLc(k) == IF pc = "lc" THEN lc(alpha, s, k, method) ELSE laplace_lc(alpha, s, k, method)
SameDnlc(e, k, ord) ==
    IF pc = "dnlc" THEN dnlc(alpha, e, k, ord, method) ELSE laplace_dnlc(alpha, e, k, ord, method)
\* the j-th factorial as a mathematical integer
BigFact(k) == ProdLimbs(ArangeInt(1, k + 1), k, BigOne, TRUE)
\* the calls to lc / dnlc recorded in a trace
Frames(trace) == {i \in DOMAIN trace : trace[i].op \in {"lc", "dnlc"}}
FrameMethod(ev) == ev.args[Len(ev.args)]
\* how often lc was called with each (s', |j'|)
LeafKeys(trace) == {<<trace[i].args[2], Abs(trace[i].args[3])>> : i \in {x \in DOMAIN trace : trace[x].op = "lc"}}
LeafCount(trace, key) ==
    Cardinality({i \in DOMAIN trace :
        trace[i].op = "lc" /\ <<trace[i].args[2], Abs(trace[i].args[3])>> = key})
SameLeafCalls(t1, t2) ==
    /\ LeafKeys(t1) = LeafKeys(t2)
    /\ \A key \in LeafKeys(t1) : LeafCount(t1, key) = LeafCount(t2, key)

\* ------------------------------------------------------------------ claims

C2_EagerValidation ==
    CalledDnlc /\ ~ Valid => RaisesExpected(res.out) /\ Len(res.trace) = 1

\* C3: for valid arguments and n < 0, dnlc returns exactly 0.0.
C3_NegativeOrderZero ==
    CalledDnlc /\ Valid /\ n < 0 => res.out = Num({})

\* C4: for valid arguments, dnlc at n = 0 is lc, and at n > 0 it is
\* s * (D(s+1,j-1,n-1) - 2 alpha D(s+1,j,n-1) + D(s+1,j+1,n-1) - 2(n-1) D(s+1,j,n-2)),
\* every frame of the tree having the alpha and the method of the call.
C4_Recurrence ==
    CalledDnlc /\ Valid /\ n >= 0 =>
        /\ n = 0 => res.out = SameLc(j).out
        /\ n > 0 =>
            LET s1 == RAdd(s, One)
                inner == FSub(FAdd(FSub(SameDnlc(s1, j - 1, n - 1).out,
                                        FScale(RMul(RInt(2), alpha), SameDnlc(s1, j, n - 1).out)),
                                   SameDnlc(s1, j + 1, n - 1).out),
                              FScale(RInt(2 * (n - 1)), SameDnlc(s1, j, n - 2).out))
            IN  res.out = FScale(s, inner)
        /\ \A i \in Frames(res.trace) :
              res.trace[i].args[1] = alpha /\ FrameMethod(res.trace[i]) = method
C4_Witness ==
    /\ pc = "dnlc" /\ Valid /\ n = 2 /\ method = "brute"
    /\ res.out.k = "num" /\ Cardinality(res.out.form) > 2

\* C5: lc is even in j, and the closed-form method uses j only through |j|.
C5_EvenInJ ==
    CalledLc /\ Valid =>
        /\ res.out = SameLc(-j).out
        /\ method = "hyper" => Tail(res.trace) = Tail(SameLc(Abs(j)).trace)
C5_Witness ==
    /\ pc = "lc" /\ Valid /\ j < 0 /\ method = "hyper"
    /\ res.out.k = "num" /\ res.out.form # {}

\* C6: for valid arguments neither function returns NaN or an infinity.
C6_NonFiniteIsError ==
    pc # "ready" /\ Valid => ~ IsNonFinite(res.out)

\* C8: in every closed-form evaluation the int64 product p is j'! and not
\* zero, and q is the product of the j' terms s, s+1, ..., s+j'-1.
C8_FactorialExact ==
    \A i \in DOMAIN res.trace :
        res.trace[i].op = "prod" =>
            LET k == res.trace[i].args[1]
                p == res.trace[i].args[2]
                q == res.trace[i].args[3]
                e == res.trace[i].args[4]
            IN  /\ Int64Equals(p, BigFact(k))
                /\ p # Int64Zero
                /\ q = [x \in 1 .. k |-> RAdd(e, RInt(x - 1))]

\* C9: when the top-level dnlc call passes validation, no frame of its tree
\* raises: each has the alpha and method of the call and an s that is not
\* smaller.
C9_NoNewFailure ==
    CalledDnlc /\ Valid =>
        /\ ~ IsErr(res.out)
        /\ \A i \in Frames(res.trace) :
              LET ev == res.trace[i]
              IN  /\ ev.args[1] = alpha
                  /\ FrameMethod(ev) = method
                  /\ ~ RLt(ev.args[2], s)
                  /\ validate_inputs(ev.args[1], ev.args[2], FrameMethod(ev)) = "none"
C9_Witness ==
    /\ pc = "dnlc" /\ Valid /\ s = Zero /\ n = 2 /\ Len(res.trace) > 20

\* C10: dnlc is even in j: the same value (linear combination of evaluator
\* values) and the same leaf calls (s', |j'|), counted with multiplicity.
C10_DerivativeEven ==
    CalledDnlc /\ Valid =>
        /\ res.out = SameDnlc(s, -j, n).out
        /\ SameLeafCalls(res.trace, SameDnlc(s, -j, n).trace)
C10_Witness ==
    /\ pc = "dnlc" /\ Valid /\ j = 1 /\ n = 2
    /\ res.out.k = "num" /\ Cardinality(res.out.form) > 2

====
